---- MODULE Spec2Model ----
(***************************************************************************)
(* Model of the zgrab2 SSH scan module (modules/ssh.go: SSHScanner.Scan)   *)
(* and of the algorithm preference setters of lib/ssh (MakeSSHConfig,      *)
(* Set*Algorithms, validateAlgorithms).                                    *)
(*                                                                         *)
(* Strings are sequences of one-character strings.  A Go slice is a        *)
(* sequence; the nil slice is the empty sequence.  A pointer to the        *)
(* HandshakeLog of invocation i is the number i, the nil pointer is 0.     *)
(***************************************************************************)
EXTENDS Integers, Sequences, FiniteSets, TLC

\* ------------------------------------------------------------------ bounds
MaxLen == 3      \* longest preference string handed to the validator
NumScans == 2    \* concurrent Scan invocations on one SSHScanner

\* ----------------------------------------------------------------- strings
Comma == ","
Chars == {"a", "b", Comma}
Strings == UNION {[1..k -> Chars] : k \in 0..MaxLen}

\* strings.Split(value, ","): n commas give n+1 tokens, "" gives [""]
RECURSIVE SplitAcc(_, _, _)
SplitAcc(s, cur, acc) ==
    IF s = <<>> THEN Append(acc, cur)
    ELSE IF Head(s) = Comma
         THEN SplitAcc(Tail(s), <<>>, Append(acc, cur))
         ELSE SplitAcc(Tail(s), Append(cur, Head(s)), acc)

Split(s) == SplitAcc(s, <<>>, <<>>)

\* strings.Join(list, ","), the inverse the claims are stated with
RECURSIVE Join(_)
Join(list) ==
    IF list = <<>> THEN <<>>
    ELSE IF Len(list) = 1 THEN Head(list)
         ELSE Head(list) \o <<Comma>> \o Join(Tail(list))

\* ------------------------------------------------------- algorithm catalog
KexCatalog == << <<"a">>, <<"a", "b">> >>
HostKeyCatalog == << <<"b">>, <<"a", "b">> >>
CipherCatalog == << <<"a">>, <<"b">> >>
MACCatalog == << <<"b">>, <<"b", "a">> >>

\* ------------------------------------------------------------- validator
Nil == <<>>
NoErr == [kind |-> "nil", alg |-> <<>>]
NotSupported(alg) == [kind |-> "algorithm not supported", alg |-> alg]

contains(list, e) == \E i \in 1..Len(list) : list[i] = e

RECURSIVE validateLoop(_, _, _)
validateLoop(toks, supported, algs) ==
    IF toks = <<>> THEN [algs |-> algs, err |-> NoErr]
    ELSE IF ~contains(supported, Head(toks))
         THEN [algs |-> Nil, err |-> NotSupported(Head(toks))]
         ELSE validateLoop(Tail(toks), supported, Append(algs, Head(toks)))

\* variant: a token already collected is skipped
RECURSIVE dedupeLoop(_, _, _)
dedupeLoop(toks, supported, algs) ==
    IF toks = <<>> THEN [algs |-> algs, err |-> NoErr]
    ELSE IF ~contains(supported, Head(toks))
         THEN [algs |-> Nil, err |-> NotSupported(Head(toks))]
         ELSE dedupeLoop(Tail(toks), supported,
                         IF contains(algs, Head(toks)) THEN algs
                         ELSE Append(algs, Head(toks)))

validateAlgorithms_dedupe(value, supported) == dedupeLoop(Split(value), supported, Nil)

\* variant: the tokens collected before the unsupported one are returned
RECURSIVE partialLoop(_, _, _)
partialLoop(toks, supported, algs) ==
    IF toks = <<>> THEN [algs |-> algs, err |-> NoErr]
    ELSE IF ~contains(supported, Head(toks))
         THEN [algs |-> algs, err |-> NotSupported(Head(toks))]
         ELSE partialLoop(Tail(toks), supported, Append(algs, Head(toks)))

validateAlgorithms_partial(value, supported) == partialLoop(Split(value), supported, Nil)

\* variant: the empty string is accepted as the empty list
validateAlgorithms_emptyOk(value, supported) ==
    IF value = <<>> THEN [algs |-> Nil, err |-> NoErr]
    ELSE validateLoop(Split(value), supported, Nil)

validateAlgorithms(value, supported) == validateLoop(Split(value), supported, Nil)

\* ----------------------------------------------------------- ClientConfig
\* new(ssh.ClientConfig): every field has its zero value
NewClientConfig ==
    [Timeout |-> 0, ConnLog |-> 0, HelloOnly |-> FALSE,
     KeyExchanges |-> Nil, HostKeyAlgorithms |-> Nil, Ciphers |-> Nil, MACs |-> Nil,
     CollectExtensions |-> FALSE, CollectUserAuth |-> FALSE, DontAuthenticate |-> FALSE,
     GexMinBits |-> 0, GexMaxBits |-> 0, GexPreferredBits |-> 0,
     BannerCallback |-> 0, HostKeyCallback |-> "nil",
     shared |-> {}]   \* the list fields whose slice shares a catalog's array

\* ------------------------------------------------------------------ state
VARIABLES
    supportedKexAlgos, supportedHostKeyAlgos, supportedCiphers, supportedMACs,
    flags,        \* SSHScanner.config, shared by every invocation
    exited,       \* the process has terminated (log.Fatal)
    pc,           \* position of each Scan invocation
    sshConfig,    \* the ClientConfig of each invocation
    data,         \* the HandshakeLog of each invocation
    conn,         \* "none", "open" or "closed"
    deadlineSet,  \* conn.SetDeadline has succeeded
    stepErr,      \* the error of the step that failed (Dial, SetDeadline, driver)
    credSent,     \* an authentication credential was transmitted
    authenticated,\* the session was marked authenticated
    closeLogged,  \* the deferred Close logged an error
    closeErr,     \* what the deferred Close returned ("none" before it ran)
    trace,        \* the steps each invocation has started, in order
    ret,          \* the (status, log, error) triple Scan returns
    cfg,          \* a ClientConfig driven through the setters directly
    value,        \* the preference string handed to the setters
    res           \* the outcome of the last direct call

catalogs == <<supportedKexAlgos, supportedHostKeyAlgos, supportedCiphers, supportedMACs>>
scanVars == <<flags, exited, pc, sshConfig, data, conn, deadlineSet, stepErr,
              credSent, authenticated, closeLogged, closeErr, trace, ret>>
apiVars == <<cfg, value, res>>
vars == <<catalogs, scanVars, apiVars>>

Procs == 1..NumScans

\* ---------------------------------------------------------------- setters
\* each setter returns the configuration it leaves behind and its error
SetKexAlgorithms(c, val) ==
    LET r == validateAlgorithms(val, supportedKexAlgos)
    IN  IF r.err # NoErr THEN [c |-> c, err |-> r.err]
        ELSE [c |-> [c EXCEPT !.KeyExchanges = r.algs, !.shared = @ \ {"KeyExchanges"}],
              err |-> NoErr]

SetHostKeyAlgorithms(c, val) ==
    LET r == validateAlgorithms(val, supportedHostKeyAlgos)
    IN  IF r.err # NoErr THEN [c |-> c, err |-> r.err]
        ELSE [c |-> [c EXCEPT !.HostKeyAlgorithms = r.algs, !.shared = @ \ {"HostKeyAlgorithms"}],
              err |-> NoErr]

\* variant: the field is assigned before the error is looked at
SetCiphers_clobber(c, val) ==
    LET r == validateAlgorithms(val, supportedCiphers)
    IN  [c |-> [c EXCEPT !.Ciphers = r.algs, !.shared = @ \ {"Ciphers"}], err |-> r.err]

SetCiphers(c, val) ==
    LET r == validateAlgorithms(val, supportedCiphers)
    IN  IF r.err # NoErr THEN [c |-> c, err |-> r.err]
        ELSE [c |-> [c EXCEPT !.Ciphers = r.algs, !.shared = @ \ {"Ciphers"}],
              err |-> NoErr]

SetMACs(c, val) ==
    LET r == validateAlgorithms(val, supportedMACs)
    IN  IF r.err # NoErr THEN [c |-> c, err |-> r.err]
        ELSE [c |-> [c EXCEPT !.MACs = r.algs, !.shared = @ \ {"MACs"}],
              err |-> NoErr]

\* ------------------------------------------------------------ scan errors
NoError == [msg |-> "", origin |-> "nil", kind |-> "nil", phase |-> "nil"]
DialError(kind) == [msg |-> "", origin |-> "dial", kind |-> kind, phase |-> "nil"]
DeadlineError == [msg |-> "", origin |-> "deadline", kind |-> "io", phase |-> "nil"]
HandshakeError(phase, kind) ==
    [msg |-> "", origin |-> "handshake", kind |-> kind, phase |-> phase]
\* fmt.Errorf("<msg>: %w", err)
Wrap(msg, err) == [err EXCEPT !.msg = msg]
Unwrap(err) == [err EXCEPT !.msg = ""]

SCAN_SUCCESS == "success"
SCAN_CONNECTION_ERROR == "connection-error"
SCAN_HANDSHAKE_ERROR == "handshake-error"
SCAN_TIMEOUT == "timeout"
SCAN_UNKNOWN_ERROR == "unknown-error"

\* zgrab2.TryGetScanStatus, the Status Classifier
TryGetScanStatus(err) ==
    IF Unwrap(err) = NoError THEN SCAN_SUCCESS
    ELSE IF err.kind = "timeout" THEN SCAN_TIMEOUT
    ELSE IF err.origin \in {"dial", "deadline"} THEN SCAN_CONNECTION_ERROR
    ELSE IF err.origin = "handshake" THEN SCAN_HANDSHAKE_ERROR
    ELSE SCAN_UNKNOWN_ERROR

NoRet == [status |-> "none", log |-> 0, err |-> NoError]

\* ------------------------------------------------------------ HandshakeLog
EmptyLog == [Banner |-> <<>>, Kex |-> <<>>, ExtAttempted |-> FALSE, UserAuth |-> <<>>]

WS == {" ", "\r", "\n"}
RECURSIVE TrimLeft(_)
TrimLeft(s) == IF s # <<>> /\ Head(s) \in WS THEN TrimLeft(Tail(s)) ELSE s
RECURSIVE TrimRight(_)
TrimRight(s) ==
    IF s # <<>> /\ s[Len(s)] \in WS THEN TrimRight(SubSeq(s, 1, Len(s) - 1)) ELSE s
\* strings.TrimSpace
TrimSpace(s) == TrimRight(TrimLeft(s))

\* sshConfig.BannerCallback: data.Banner = strings.TrimSpace(banner)
BannerCallback(log, banner) == [log EXCEPT !.Banner = TrimSpace(banner)]

\* ------------------------------------------------------------------ flags
KexChoices == { <<"a", Comma, "a", "b">>, <<"b">> }
HostKeyChoices == { <<"b">>, <<>> }
CipherChoices == { <<"a", Comma, "b">>, <<"a", Comma, "a", "b">> }
MACChoices == { <<"b", "a">>, <<"b", Comma>> }
TimeoutChoices == {0, 1}
DefaultGex == [min |-> 1024, max |-> 8192, preferred |-> 2048]
GexChoices ==
    { DefaultGex,
      [min |-> 4096, max |-> 1024, preferred |-> 2048],
      [min |-> 1024, max |-> 8192, preferred |-> 512] }

DefaultFlags ==
    [HelloOnly |-> FALSE, CollectExtensions |-> FALSE, CollectUserAuth |-> FALSE,
     ConnectTimeout |-> 1,
     KexAlgorithms |-> <<"a", Comma, "a", "b">>, HostKeyAlgorithms |-> <<"b">>,
     Ciphers |-> <<"a", Comma, "b">>, MACs |-> <<"b", "a">>,
     GexMinBits |-> DefaultGex.min, GexMaxBits |-> DefaultGex.max,
     GexPreferredBits |-> DefaultGex.preferred]

\* the policy flags, the timeout and the preference strings, in every combination
PolicyFlags ==
    { [DefaultFlags EXCEPT !.HelloOnly = h, !.CollectExtensions = e,
                           !.CollectUserAuth = u, !.ConnectTimeout = t,
                           !.KexAlgorithms = k, !.HostKeyAlgorithms = hk,
                           !.Ciphers = c, !.MACs = m] :
      h \in BOOLEAN, e \in BOOLEAN, u \in BOOLEAN, t \in TimeoutChoices,
      k \in KexChoices, hk \in HostKeyChoices, c \in CipherChoices, m \in MACChoices }

\* the group-exchange sizes, which Scan copies independently of the other flags
GexFlags ==
    { [DefaultFlags EXCEPT !.GexMinBits = g.min, !.GexMaxBits = g.max,
                           !.GexPreferredBits = g.preferred] : g \in GexChoices }

\* SSHFlags.Validate: return nil
Validate(f) == NoErr

FlagSpace == { f \in PolicyFlags \cup GexFlags : Validate(f) = NoErr }

\* the same identification line, sent with different surrounding whitespace
ServerBanners == { <<"S", " ", "H", "\r", "\n">>, <<" ", "S", " ", "H", "\n">> }
ServerAuthMethods == <<"publickey", "password">>

NoRes == [op |-> "none", supported |-> <<>>, algs |-> Nil, err |-> NoErr]

CatalogInit ==
    /\ supportedKexAlgos = KexCatalog
    /\ supportedHostKeyAlgos = HostKeyCatalog
    /\ supportedCiphers = CipherCatalog
    /\ supportedMACs = MACCatalog

ScanInit(f, start) ==
    /\ flags = f
    /\ exited = FALSE
    /\ pc = [i \in Procs |-> start]
    /\ sshConfig = [i \in Procs |-> NewClientConfig]
    /\ data = [i \in Procs |-> EmptyLog]
    /\ conn = [i \in Procs |-> "none"]
    /\ deadlineSet = [i \in Procs |-> FALSE]
    /\ stepErr = [i \in Procs |-> NoError]
    /\ credSent = [i \in Procs |-> FALSE]
    /\ authenticated = [i \in Procs |-> FALSE]
    /\ closeLogged = [i \in Procs |-> FALSE]
    /\ closeErr = [i \in Procs |-> "none"]
    /\ trace = [i \in Procs |-> <<>>]
    /\ ret = [i \in Procs |-> NoRet]

Init ==
    /\ CatalogInit
    /\ \E f \in FlagSpace : ScanInit(f, "start")
    /\ cfg = NewClientConfig
    /\ value = <<>>
    /\ res = NoRes

\* --------------------------------------------------------- Scan, step by step
Step(i, from, to, name) ==
    /\ ~exited
    /\ pc[i] = from
    /\ pc' = [pc EXCEPT ![i] = to]
    /\ trace' = [trace EXCEPT ![i] = IF name = "" THEN @ ELSE Append(@, name)]

\* variant: the setter's error is ignored
FatalOnError_never(err) == FALSE

\* if err != nil { log.Fatal(err) }
FatalOnError(err) == err # NoErr

\* log.Fatal: the process exits, every invocation stops where it is
Fatal(i, from, name) ==
    /\ ~exited
    /\ pc[i] = from
    /\ exited' = TRUE
    /\ trace' = [trace EXCEPT ![i] = Append(@, name)]
    /\ UNCHANGED <<flags, pc, sshConfig, data, conn, deadlineSet, stepErr, credSent,
                   authenticated, closeLogged, closeErr, ret>>

\* variant: HelloOnly is not copied
ConfigHead_noHelloOnly(i) ==
    [NewClientConfig EXCEPT !.Timeout = flags.ConnectTimeout,
                            !.ConnLog = i]

\* the fields copied from the scanner flags before the setters run
ConfigHead(i) ==
    [NewClientConfig EXCEPT !.Timeout = flags.ConnectTimeout,
                            !.ConnLog = i,
                            !.HelloOnly = flags.HelloOnly]

\* variant: DontAuthenticate is left at its zero value
ConfigTail_noDontAuth(c, i) ==
    [c EXCEPT !.CollectExtensions = flags.CollectExtensions,
              !.CollectUserAuth = flags.CollectUserAuth,
              !.GexMinBits = flags.GexMinBits,
              !.GexMaxBits = flags.GexMaxBits,
              !.GexPreferredBits = flags.GexPreferredBits,
              !.BannerCallback = i,
              !.HostKeyCallback = "InsecureIgnoreHostKey"]

\* variant: the banner callback writes to one log kept for all invocations
ConfigTail_sharedLog(c, i) ==
    [c EXCEPT !.CollectExtensions = flags.CollectExtensions,
              !.CollectUserAuth = flags.CollectUserAuth,
              !.DontAuthenticate = TRUE,
              !.GexMinBits = flags.GexMinBits,
              !.GexMaxBits = flags.GexMaxBits,
              !.GexPreferredBits = flags.GexPreferredBits,
              !.BannerCallback = 1,
              !.HostKeyCallback = "InsecureIgnoreHostKey"]

\* the fields set after the setters have succeeded
ConfigTail(c, i) ==
    [c EXCEPT !.CollectExtensions = flags.CollectExtensions,
              !.CollectUserAuth = flags.CollectUserAuth,
              !.DontAuthenticate = TRUE,
              !.GexMinBits = flags.GexMinBits,
              !.GexMaxBits = flags.GexMaxBits,
              !.GexPreferredBits = flags.GexPreferredBits,
              !.BannerCallback = i,
              !.HostKeyCallback = "InsecureIgnoreHostKey"]

ScanNew(i) ==
    /\ Step(i, "start", "setHostKey", "")
    /\ data' = [data EXCEPT ![i] = EmptyLog]
    /\ sshConfig' = [sshConfig EXCEPT ![i] = ConfigHead(i)]
    /\ UNCHANGED <<flags, exited, conn, deadlineSet, stepErr, credSent, authenticated,
                   closeLogged, closeErr, ret>>

Setter(i, from, to, name, r) ==
    IF FatalOnError(r.err)
    THEN Fatal(i, from, name)
    ELSE /\ Step(i, from, to, name)
         /\ sshConfig' = [sshConfig EXCEPT ![i] = r.c]
         /\ UNCHANGED <<flags, exited, data, conn, deadlineSet, stepErr, credSent,
                        authenticated, closeLogged, closeErr, ret>>

ScanSetHostKeyAlgorithms(i) ==
    Setter(i, "setHostKey", "setKex", "SetHostKeyAlgorithms",
           SetHostKeyAlgorithms(sshConfig[i], flags.HostKeyAlgorithms))

ScanSetKexAlgorithms(i) ==
    Setter(i, "setKex", "setCiphers", "SetKexAlgorithms",
           SetKexAlgorithms(sshConfig[i], flags.KexAlgorithms))

ScanSetCiphers(i) ==
    Setter(i, "setCiphers", "setMACs", "SetCiphers",
           SetCiphers(sshConfig[i], flags.Ciphers))

ScanSetMACs(i) ==
    Setter(i, "setMACs", "assemble", "SetMACs",
           SetMACs(sshConfig[i], flags.MACs))

ScanAssemble(i) ==
    /\ Step(i, "assemble", "dial", "")
    /\ sshConfig' = [sshConfig EXCEPT ![i] = ConfigTail(@, i)]
    /\ UNCHANGED <<flags, exited, data, conn, deadlineSet, stepErr, credSent,
                   authenticated, closeLogged, closeErr, ret>>

\* variant: the cause is formatted with %v, so the classifier cannot see it
DialFailed_lostCause(err) ==
    [status |-> TryGetScanStatus([msg |-> "failed to dial target", origin |-> "unknown",
                                  kind |-> "unknown", phase |-> "nil"]),
     log |-> 0,
     err |-> Wrap("failed to dial target", err)]

\* variant: a dial failure is reported with the handshake status
DialFailed_asHandshake(err) ==
    [status |-> SCAN_HANDSHAKE_ERROR, log |-> 0,
     err |-> Wrap("failed to dial target", err)]

\* the triples of the four return statements of Scan
DialFailed(err) ==
    LET e == Wrap("failed to dial target", err)
    IN  [status |-> TryGetScanStatus(e), log |-> 0, err |-> e]

DeadlineFailed(err) ==
    [status |-> TryGetScanStatus(err), log |-> 0,
     err |-> Wrap("failed to set connection deadline", err)]

HandshakeFailed(i, err) ==
    [status |-> SCAN_HANDSHAKE_ERROR, log |-> 0,
     err |-> Wrap("failed to create SSH client connection", err)]

Succeeded(i, err) ==
    [status |-> TryGetScanStatus(err), log |-> i, err |-> err]

DialKinds == {"timeout", "refused"}

ScanDial(i) ==
    /\ \/ /\ Step(i, "dial", "deadline", "Dial")
          /\ conn' = [conn EXCEPT ![i] = "open"]
          /\ UNCHANGED <<ret, stepErr>>
       \/ \E k \in DialKinds :
          /\ Step(i, "dial", "done", "Dial")
          /\ stepErr' = [stepErr EXCEPT ![i] = DialError(k)]
          /\ ret' = [ret EXCEPT ![i] = DialFailed(DialError(k))]
          /\ conn' = conn
    /\ UNCHANGED <<flags, exited, sshConfig, data, deadlineSet, credSent,
                   authenticated, closeLogged, closeErr>>

\* variant: the deadline is never set
NeedsDeadline_never(t) == FALSE

\* if s.config.ConnectTimeout != 0
NeedsDeadline(t) == t # 0

\* err = conn.SetDeadline(time.Now().Add(s.config.ConnectTimeout)), when needed
ScanSetDeadline(i) ==
    /\ IF NeedsDeadline(flags.ConnectTimeout)
       THEN \/ /\ Step(i, "deadline", "VersionExchange", "SetDeadline")
               /\ deadlineSet' = [deadlineSet EXCEPT ![i] = TRUE]
               /\ UNCHANGED <<ret, stepErr>>
            \/ /\ Step(i, "deadline", "done", "SetDeadline")
               /\ stepErr' = [stepErr EXCEPT ![i] = DeadlineError]
               /\ ret' = [ret EXCEPT ![i] = DeadlineFailed(DeadlineError)]
               /\ deadlineSet' = deadlineSet
       ELSE /\ Step(i, "deadline", "VersionExchange", "")
            /\ UNCHANGED <<deadlineSet, ret, stepErr>>
    /\ UNCHANGED <<flags, exited, sshConfig, data, conn, credSent,
                   authenticated, closeLogged, closeErr>>

\* ------------------------------------------- ssh.NewClientConn, the driver
\* a read or write can only run into the deadline when one is set
HandshakeKinds(i) == IF deadlineSet[i] THEN {"timeout", "eof"} ELSE {"eof"}

\* the phase that follows a completed key exchange / extension negotiation
AfterKex(c) ==
    IF c.CollectExtensions THEN "ExtensionNegotiation"
    ELSE IF c.CollectUserAuth \/ ~c.DontAuthenticate THEN "UserAuthProbe"
    ELSE "return"

AfterExt(c) ==
    IF c.CollectUserAuth \/ ~c.DontAuthenticate THEN "UserAuthProbe" ELSE "return"

\* the phase fails: the driver closes the stream and returns the error
DriverFail(i, phase) ==
    \E k \in HandshakeKinds(i) :
        /\ Step(i, phase, "failed", phase)
        /\ stepErr' = [stepErr EXCEPT ![i] = HandshakeError(phase, k)]
        /\ conn' = [conn EXCEPT ![i] = "closed"]

VersionExchange(i) ==
    /\ \/ /\ DriverFail(i, "VersionExchange")
          /\ data' = data
       \/ \E b \in ServerBanners :
          /\ Step(i, "VersionExchange",
                  IF sshConfig[i].HelloOnly THEN "return" ELSE "KeyExchange",
                  "VersionExchange")
          /\ data' = [data EXCEPT ![sshConfig[i].BannerCallback] = BannerCallback(@, b)]
          /\ UNCHANGED <<stepErr, conn>>
    /\ UNCHANGED <<flags, exited, sshConfig, deadlineSet, credSent, authenticated,
                   closeLogged, closeErr, ret>>

Negotiated(c) ==
    IF c.KeyExchanges = Nil THEN supportedKexAlgos[1] ELSE c.KeyExchanges[1]

KeyExchange(i) ==
    /\ \/ /\ DriverFail(i, "KeyExchange")
          /\ data' = data
       \/ /\ Step(i, "KeyExchange", AfterKex(sshConfig[i]), "KeyExchange")
          /\ data' = [data EXCEPT ![sshConfig[i].ConnLog].Kex = Negotiated(sshConfig[i])]
          /\ UNCHANGED <<stepErr, conn>>
    /\ UNCHANGED <<flags, exited, sshConfig, deadlineSet, credSent, authenticated,
                   closeLogged, closeErr, ret>>

ExtensionNegotiation(i) ==
    /\ \/ /\ DriverFail(i, "ExtensionNegotiation")
          /\ data' = data
       \/ /\ Step(i, "ExtensionNegotiation", AfterExt(sshConfig[i]),
                  "ExtensionNegotiation")
          /\ data' = [data EXCEPT ![sshConfig[i].ConnLog].ExtAttempted = TRUE]
          /\ UNCHANGED <<stepErr, conn>>
    /\ UNCHANGED <<flags, exited, sshConfig, deadlineSet, credSent, authenticated,
                   closeLogged, closeErr, ret>>

\* the "none" request; with DontAuthenticate unset the driver would go on to
\* authenticate with whatever the configuration carries
UserAuthProbe(i) ==
    /\ \/ /\ DriverFail(i, "UserAuthProbe")
          /\ UNCHANGED <<data, credSent, authenticated>>
       \/ /\ Step(i, "UserAuthProbe", "return", "UserAuthProbe")
          /\ IF sshConfig[i].DontAuthenticate
             THEN /\ data' = [data EXCEPT ![sshConfig[i].ConnLog].UserAuth =
                                              ServerAuthMethods]
                  /\ UNCHANGED <<credSent, authenticated>>
             ELSE /\ credSent' = [credSent EXCEPT ![i] = TRUE]
                  /\ authenticated' = [authenticated EXCEPT ![i] = TRUE]
                  /\ data' = data
          /\ UNCHANGED <<stepErr, conn>>
    /\ UNCHANGED <<flags, exited, sshConfig, deadlineSet, closeLogged, closeErr, ret>>

\* --------------------------------------------------- Scan after the driver
\* variant: a failed handshake ends the process like a failed setter
ScanHandshakeFailed_fatal(i) == Fatal(i, "failed", "Fatal")

\* variant: a failed handshake is retried from the dial
ScanHandshakeFailed_retry(i) ==
    /\ Step(i, "failed", "dial", "")
    /\ UNCHANGED <<flags, exited, sshConfig, data, conn, deadlineSet, stepErr, credSent,
                   authenticated, closeLogged, closeErr, ret>>

ScanHandshakeFailed(i) ==
    /\ Step(i, "failed", "done", "")
    /\ ret' = [ret EXCEPT ![i] = HandshakeFailed(i, stepErr[i])]
    /\ UNCHANGED <<flags, exited, sshConfig, data, conn, deadlineSet, stepErr, credSent,
                   authenticated, closeLogged, closeErr>>

\* status := zgrab2.TryGetScanStatus(err); return status, data, err
ScanReturn(i) ==
    /\ Step(i, "return", "closing", "")
    /\ ret' = [ret EXCEPT ![i] = Succeeded(i, stepErr[i])]
    /\ UNCHANGED <<flags, exited, sshConfig, data, conn, deadlineSet, stepErr, credSent,
                   authenticated, closeLogged, closeErr>>

CloseOutcomes == {"ok", "use of closed network connection", "other"}

\* if err != nil && !strings.Contains(err.Error(), "use of closed network connection")
LogsCloseError(o) == o # "ok" /\ o # "use of closed network connection"

\* variant: the results are named, so the deferred assignment reaches the caller
RetAfterClose_named(r, o) ==
    IF o = "ok" THEN r
    ELSE [r EXCEPT !.err = [msg |-> "", origin |-> "close", kind |-> o, phase |-> "nil"]]

\* err = sshClient.Close() assigns the local err after the results were evaluated
RetAfterClose(r, o) == r

\* the deferred sshClient.Close()
ScanDeferredClose(i) ==
    /\ \E o \in CloseOutcomes :
        /\ Step(i, "closing", "done", "Close")
        /\ conn' = [conn EXCEPT ![i] = "closed"]
        /\ closeErr' = [closeErr EXCEPT ![i] = o]
        /\ closeLogged' = [closeLogged EXCEPT ![i] = LogsCloseError(o)]
        /\ ret' = [ret EXCEPT ![i] = RetAfterClose(@, o)]
    /\ UNCHANGED <<flags, exited, sshConfig, data, deadlineSet, stepErr, credSent,
                   authenticated>>

Next ==
    /\ UNCHANGED <<catalogs, apiVars>>
    /\ \E i \in Procs :
        \/ ScanNew(i)
        \/ ScanSetHostKeyAlgorithms(i)
        \/ ScanSetKexAlgorithms(i)
        \/ ScanSetCiphers(i)
        \/ ScanSetMACs(i)
        \/ ScanAssemble(i)
        \/ ScanDial(i)
        \/ ScanSetDeadline(i)
        \/ VersionExchange(i)
        \/ KeyExchange(i)
        \/ ExtensionNegotiation(i)
        \/ UserAuthProbe(i)
        \/ ScanHandshakeFailed(i)
        \/ ScanReturn(i)
        \/ ScanDeferredClose(i)

Spec == Init /\ [][Next]_vars

\* ------------------------------------- the configuration API, called directly
ListFields == {"KeyExchanges", "HostKeyAlgorithms", "Ciphers", "MACs"}

\* ret.KeyExchanges = supportedKexAlgos, ...: the slices share the catalog arrays
MakeSSHConfig ==
    [NewClientConfig EXCEPT !.KeyExchanges = supportedKexAlgos,
                            !.HostKeyAlgorithms = supportedHostKeyAlgos,
                            !.Ciphers = supportedCiphers,
                            !.MACs = supportedMACs,
                            !.shared = ListFields]

\* variant: the validated list is copied into the slice the field holds
SliceAssign_copy(catalog, c, field, algs) ==
    IF field \in c.shared
    THEN [n \in 1..Len(catalog) |-> IF n <= Len(algs) THEN algs[n] ELSE catalog[n]]
    ELSE catalog

\* c.<field> = algs rebinds the field to the new slice; the array the old slice
\* shared with the catalog is not written.  The result is the catalog afterwards.
SliceAssign(catalog, c, field, algs) == catalog

\* the catalog after a setter call that returned r
AfterSet(catalog, field, r) ==
    IF r.err = NoErr THEN SliceAssign(catalog, cfg, field, r.c[field]) ELSE catalog

ConfigInit ==
    /\ CatalogInit
    /\ ScanInit(DefaultFlags, "idle")
    /\ cfg = NewClientConfig
    /\ value \in Strings
    /\ res = NoRes

CallMakeSSHConfig ==
    /\ cfg' = MakeSSHConfig
    /\ res' = [op |-> "MakeSSHConfig", supported |-> <<>>, algs |-> Nil, err |-> NoErr]
    /\ UNCHANGED catalogs

CallSetter(name, r) ==
    /\ cfg' = r.c
    /\ res' = [op |-> name, supported |-> <<>>, algs |-> Nil, err |-> r.err]

CallSetKexAlgorithms ==
    LET r == SetKexAlgorithms(cfg, value)
    IN  /\ CallSetter("SetKexAlgorithms", r)
        /\ supportedKexAlgos' = AfterSet(supportedKexAlgos, "KeyExchanges", r)
        /\ UNCHANGED <<supportedHostKeyAlgos, supportedCiphers, supportedMACs>>

CallSetHostKeyAlgorithms ==
    LET r == SetHostKeyAlgorithms(cfg, value)
    IN  /\ CallSetter("SetHostKeyAlgorithms", r)
        /\ supportedHostKeyAlgos' = AfterSet(supportedHostKeyAlgos, "HostKeyAlgorithms", r)
        /\ UNCHANGED <<supportedKexAlgos, supportedCiphers, supportedMACs>>

CallSetCiphers ==
    LET r == SetCiphers(cfg, value)
    IN  /\ CallSetter("SetCiphers", r)
        /\ supportedCiphers' = AfterSet(supportedCiphers, "Ciphers", r)
        /\ UNCHANGED <<supportedKexAlgos, supportedHostKeyAlgos, supportedMACs>>

CallSetMACs ==
    LET r == SetMACs(cfg, value)
    IN  /\ CallSetter("SetMACs", r)
        /\ supportedMACs' = AfterSet(supportedMACs, "MACs", r)
        /\ UNCHANGED <<supportedKexAlgos, supportedHostKeyAlgos, supportedCiphers>>

CallValidateAlgorithms ==
    \E supported \in {supportedKexAlgos, supportedHostKeyAlgos,
                      supportedCiphers, supportedMACs} :
        LET r == validateAlgorithms(value, supported)
        IN  /\ res' = [op |-> "validateAlgorithms", supported |-> supported,
                       algs |-> r.algs, err |-> r.err]
            /\ cfg' = cfg
            /\ UNCHANGED catalogs

ConfigNext ==
    /\ UNCHANGED <<scanVars, value>>
    /\ \/ CallMakeSSHConfig
       \/ CallSetKexAlgorithms
       \/ CallSetHostKeyAlgorithms
       \/ CallSetCiphers
       \/ CallSetMACs
       \/ CallValidateAlgorithms

SpecConfig == ConfigInit /\ [][ConfigNext]_vars

\* ===================================================================== claims
Range(seq) == {seq[n] : n \in 1..Len(seq)}
Has(seq, e) == e \in Range(seq)
DriverPhases == {"VersionExchange", "KeyExchange", "ExtensionNegotiation", "UserAuthProbe"}
Validated(r) == r.op = "validateAlgorithms"

\* the lists of catalog identifiers whose comma-joined form fits the bound
MaxTokens == (MaxLen + 1) \div 2
CatalogLists(supported) == UNION {[1..n -> Range(supported)] : n \in 1..MaxTokens}
ValidStrings(supported) == {Join(l) : l \in CatalogLists(supported)}
NoComma(s) == \A n \in 1..Len(s) : s[n] # Comma

\* C6: a preference string that is the comma-joined form of a list of catalog
\* identifiers validates without error to exactly that list: same length, same
\* order, duplicates kept.
C6_ValidListPreserved ==
    Validated(res) =>
        \A l \in CatalogLists(res.supported) :
            Join(l) = value => res.err = NoErr /\ res.algs = l

C6_Witness ==
    /\ Validated(res) /\ res.err = NoErr
    /\ Len(res.algs) = 2 /\ res.algs[1] = res.algs[2]

\* C7: when the string is a (possibly empty) run of catalog identifiers followed
\* by a token that is not in the catalog, validation returns no list and the
\* 'algorithm not supported' error naming that leftmost unsupported token.
C7_FirstUnsupportedToken ==
    Validated(res) =>
        \A n \in 0..Len(value) : \A m \in n..Len(value) :
            LET bad == SubSeq(value, n + 1, m)
            IN  ( /\ n = 0 \/ ( /\ value[n] = Comma
                               /\ SubSeq(value, 1, n - 1) \in ValidStrings(res.supported) )
                  /\ m = Len(value) \/ value[m + 1] = Comma
                  /\ NoComma(bad)
                  /\ ~contains(res.supported, bad) )
                => res.algs = Nil /\ res.err = NotSupported(bad)

C7_Witness ==
    /\ Validated(res)
    /\ Len(Split(value)) >= 2
    /\ contains(res.supported, Split(value)[1])
    /\ res.err = NotSupported(Split(value)[2])
    /\ res.algs = Nil

\* C8 as stated: the empty string validates to the empty list without an error.
C8_EmptyGivesEmpty ==
    (Validated(res) /\ value = <<>>) => (res.err = NoErr /\ res.algs = <<>>)

\* C8 amended: the empty string is split into one empty token, which no catalog
\* set contains, so validation fails with the 'algorithm not supported' error
\* naming the empty token and returns no list.
C8_EmptyRejected ==
    (Validated(res) /\ value = <<>>) => (res.err = NotSupported(<<>>) /\ res.algs = Nil)

C8_Witness == Validated(res) /\ value = <<>> /\ res.err.kind = "algorithm not supported"

\* ------------------------------------------------------------- Scan claims
Returned(i) == pc[i] = "done"
InDriver(i) == pc[i] \in DriverPhases
HandshakeFailure(i) == stepErr[i].origin = "handshake"
Unsupported(val, supported) == \E t \in Range(Split(val)) : ~contains(supported, t)

\* C1: the configuration the driver runs with has DontAuthenticate set, no
\* credential is ever transmitted, no session is ever marked authenticated, and
\* the userauth probe fills in nothing but the advertised method list.
C1_NeverAuthenticates ==
    \A i \in Procs :
        /\ InDriver(i) => sshConfig[i].DontAuthenticate
        /\ ~credSent[i]
        /\ ~authenticated[i]
        /\ data[i].UserAuth # <<>> =>
              /\ flags.CollectUserAuth
              /\ data[i].UserAuth = ServerAuthMethods

C1_Witness ==
    \E i \in Procs :
        /\ Returned(i) /\ ret[i].status = SCAN_SUCCESS
        /\ Has(trace[i], "UserAuthProbe")
        /\ data[i].UserAuth = ServerAuthMethods

\* C2: a handshake that fails returns handshake-error; when it fails after the
\* banner was read, Scan returns the log of what the completed phases captured,
\* and after a failure right behind the banner that log has the banner and
\* nothing else.
C2_PartialLogReturned ==
    \A i \in Procs :
        (Returned(i) /\ HandshakeFailure(i)) =>
            /\ ret[i].status = SCAN_HANDSHAKE_ERROR
            /\ stepErr[i].phase # "VersionExchange" =>
                  /\ ret[i].log # 0
                  /\ data[ret[i].log].Banner \in {TrimSpace(b) : b \in ServerBanners}
            /\ stepErr[i].phase = "KeyExchange" =>
                  data[ret[i].log] = [EmptyLog EXCEPT !.Banner = data[ret[i].log].Banner]

\* C3: a connection that Dial opened is closed when Scan has returned.
C3_ConnClosedOnReturn ==
    \A i \in Procs : (Returned(i) /\ conn[i] # "none") => conn[i] = "closed"

\* C4: a deadline that expires in a phase of the handshake gives status timeout.
C4_HandshakeTimeoutStatus ==
    \A i \in Procs :
        (Returned(i) /\ HandshakeFailure(i) /\ stepErr[i].kind = "timeout") =>
            ret[i].status = SCAN_TIMEOUT

\* C5: with an unsupported token in one of the four preference strings no
\* invocation dials, and the list of a failing category is never filled in.
BadFlags ==
    \/ Unsupported(flags.KexAlgorithms, KexCatalog)
    \/ Unsupported(flags.HostKeyAlgorithms, HostKeyCatalog)
    \/ Unsupported(flags.Ciphers, CipherCatalog)
    \/ Unsupported(flags.MACs, MACCatalog)

C5_NoDialOnBadPreference ==
    BadFlags =>
        \A i \in Procs :
            /\ conn[i] = "none"
            /\ ~Has(trace[i], "Dial")
            /\ pc[i] \in {"start", "setHostKey", "setKex", "setCiphers", "setMACs"}
            /\ Unsupported(flags.KexAlgorithms, KexCatalog) => sshConfig[i].KeyExchanges = Nil
            /\ Unsupported(flags.HostKeyAlgorithms, HostKeyCatalog) =>
                  sshConfig[i].HostKeyAlgorithms = Nil
            /\ Unsupported(flags.Ciphers, CipherCatalog) => sshConfig[i].Ciphers = Nil
            /\ Unsupported(flags.MACs, MACCatalog) => sshConfig[i].MACs = Nil

C5_Witness ==
    /\ BadFlags
    /\ exited
    /\ \E i, j \in Procs :
        /\ i # j
        /\ pc[i] = "setCiphers" /\ Has(trace[i], "SetCiphers")
        /\ pc[j] = "setCiphers" /\ ~Has(trace[j], "SetCiphers")

\* C9: with HelloOnly no phase after VersionExchange is started, and once the
\* banner has been read Scan returns success with a log holding only the banner.
C9_HelloOnlyStopsAfterBanner ==
    \A i \in Procs :
        flags.HelloOnly =>
            /\ Range(trace[i]) \cap (DriverPhases \ {"VersionExchange"}) = {}
            /\ (Returned(i) /\ Has(trace[i], "VersionExchange") /\ ~HandshakeFailure(i)) =>
                  /\ ret[i].status = SCAN_SUCCESS
                  /\ ret[i].err = NoError
                  /\ ret[i].log = i
                  /\ data[i].Banner \in {TrimSpace(b) : b \in ServerBanners}
                  /\ data[i] = [EmptyLog EXCEPT !.Banner = data[i].Banner]

C9_Witness ==
    \E i \in Procs :
        /\ flags.HelloOnly /\ Returned(i)
        /\ ret[i].status = SCAN_SUCCESS
        /\ data[i].Banner = <<"S", " ", "H">>

\* C10: success goes with an absent error and only with it; a Dial or
\* SetDeadline error gives connection-error or timeout; a driver error gives
\* handshake-error; a failing Scan returns the error of the step that failed.
C10_StatusByPhase ==
    \A i \in Procs :
        Returned(i) =>
            /\ (ret[i].status = SCAN_SUCCESS) <=> (ret[i].err = NoError)
            /\ (stepErr[i] = NoError) <=> (ret[i].err = NoError)
            /\ Unwrap(ret[i].err) = stepErr[i]
            /\ stepErr[i].origin \in {"dial", "deadline"} =>
                  ret[i].status \in {SCAN_CONNECTION_ERROR, SCAN_TIMEOUT}
            /\ HandshakeFailure(i) => ret[i].status = SCAN_HANDSHAKE_ERROR

C10_Witness ==
    \E i, j \in Procs :
        /\ Returned(i) /\ stepErr[i].origin = "deadline"
        /\ ret[i].status = SCAN_CONNECTION_ERROR
        /\ Returned(j) /\ HandshakeFailure(j)
        /\ ret[j].status = SCAN_HANDSHAKE_ERROR

\* C11: the deferred Close leaves the triple Scan returns and the log as they
\* were, whatever it returns; 'use of closed network connection' is not logged,
\* any other close error is logged and nothing else.
C11_CloseKeepsTriple ==
    [][\A i \in Procs :
          (pc[i] = "closing" /\ pc'[i] = "done") =>
              /\ ret'[i] = ret[i]
              /\ data' = data
              /\ closeLogged'[i] <=> closeErr'[i] = "other"
              /\ closeErr'[i] = "use of closed network connection" => ~closeLogged'[i]]_vars

C11_Witness ==
    \E i, j \in Procs :
        /\ Returned(i) /\ closeErr[i] = "other" /\ closeLogged[i]
        /\ ret[i] = Succeeded(i, NoError)
        /\ Returned(j) /\ closeErr[j] = "use of closed network connection"
        /\ ~closeLogged[j]

\* C12: a Dial that runs into the timeout makes Scan return status timeout and
\* no log, with nothing captured; SetDeadline and the driver are never started.
C12_DialTimeout ==
    \A i \in Procs :
        (Returned(i) /\ stepErr[i] = DialError("timeout")) =>
            /\ ret[i].status = SCAN_TIMEOUT
            /\ ret[i].log = 0
            /\ data[i] = EmptyLog
            /\ trace[i][Len(trace[i])] = "Dial"
            /\ Range(trace[i]) \cap ({"SetDeadline", "Close"} \cup DriverPhases) = {}
            /\ conn[i] = "none"
            /\ ~deadlineSet[i]

C12_Witness ==
    \E i \in Procs :
        /\ Returned(i) /\ stepErr[i] = DialError("timeout")
        /\ ret[i].status = SCAN_TIMEOUT
        /\ flags.ConnectTimeout # 0

\* C13: the configuration the driver runs with has
\* GexMinBits <= GexPreferredBits <= GexMaxBits.
C13_GexOrdered ==
    \A i \in Procs :
        InDriver(i) =>
            /\ sshConfig[i].GexMinBits <= sshConfig[i].GexPreferredBits
            /\ sshConfig[i].GexPreferredBits <= sshConfig[i].GexMaxBits

ReachedDriver(i) == InDriver(i) \/ Has(trace[i], "VersionExchange")

\* C14 as stated: whenever the driver runs, a deadline has been set, for every
\* value of the connect timeout.
C14_DeadlineAlwaysSet ==
    \A i \in Procs : ReachedDriver(i) => deadlineSet[i]

\* C14 amended: when the driver runs with a non-zero connect timeout, the
\* deadline was set after Dial and before the handshake; with a zero connect
\* timeout Scan sets no deadline.
C14_DeadlineSetUnlessZero ==
    \A i \in Procs :
        ReachedDriver(i) =>
            /\ deadlineSet[i] <=> flags.ConnectTimeout # 0
            /\ deadlineSet[i] <=> Has(trace[i], "SetDeadline")
            /\ deadlineSet[i] =>
                  \E n \in 1..Len(trace[i]) :
                      /\ trace[i][n] = "Dial"
                      /\ trace[i][n + 1] = "SetDeadline"
                      /\ Has(trace[i], "VersionExchange") => trace[i][n + 2] = "VersionExchange"

C14_Witness ==
    \E i, j \in Procs :
        /\ pc[i] = "KeyExchange" /\ deadlineSet[i]
        /\ flags.ConnectTimeout # 0
        /\ pc[j] = "VersionExchange"

StepOrder ==
    <<"SetHostKeyAlgorithms", "SetKexAlgorithms", "SetCiphers", "SetMACs", "Dial",
      "SetDeadline", "VersionExchange", "KeyExchange", "ExtensionNegotiation",
      "UserAuthProbe", "Close">>
StepIndex(name) == CHOOSE n \in 1..Len(StepOrder) : StepOrder[n] = name
Last(seq) == seq[Len(seq)]
FailedStep(err) ==
    IF err.origin = "dial" THEN "Dial"
    ELSE IF err.origin = "deadline" THEN "SetDeadline"
    ELSE err.phase
SetterFails(name) ==
    \/ name = "SetHostKeyAlgorithms" /\ Unsupported(flags.HostKeyAlgorithms, HostKeyCatalog)
    \/ name = "SetKexAlgorithms" /\ Unsupported(flags.KexAlgorithms, KexCatalog)
    \/ name = "SetCiphers" /\ Unsupported(flags.Ciphers, CipherCatalog)
    \/ name = "SetMACs" /\ Unsupported(flags.MACs, MACCatalog)

\* C15: the steps an invocation has started follow the fixed order without
\* repetition; a step that failed is the last one started; every step was
\* started only after the steps it depends on, and Close only after the whole
\* handshake the flags ask for (with HelloOnly: after VersionExchange).
C15_StepsInOrder ==
    \A i \in Procs :
        LET t == trace[i]
            ran(name) == Has(t, name)
        IN  /\ \A n \in 1..(Len(t) - 1) : StepIndex(t[n]) < StepIndex(t[n + 1])
            /\ stepErr[i] # NoError => Last(t) = FailedStep(stepErr[i])
            /\ \A n \in 1..Len(t) : SetterFails(t[n]) => n = Len(t)
            /\ ran("Dial") => \A n \in 1..4 : ran(StepOrder[n])
            /\ ran("SetDeadline") => ran("Dial")
            /\ ran("VersionExchange") =>
                  ran("Dial") /\ (flags.ConnectTimeout # 0 => ran("SetDeadline"))
            /\ ran("KeyExchange") => ran("VersionExchange") /\ ~flags.HelloOnly
            /\ ran("ExtensionNegotiation") => ran("KeyExchange") /\ flags.CollectExtensions
            /\ ran("UserAuthProbe") =>
                  /\ ran("KeyExchange") /\ flags.CollectUserAuth
                  /\ flags.CollectExtensions => ran("ExtensionNegotiation")
            /\ ran("Close") =>
                  /\ stepErr[i] = NoError
                  /\ ran("VersionExchange")
                  /\ ~flags.HelloOnly =>
                        /\ ran("KeyExchange")
                        /\ flags.CollectExtensions => ran("ExtensionNegotiation")
                        /\ flags.CollectUserAuth => ran("UserAuthProbe")

C15_Witness == \E i \in Procs : Returned(i) /\ trace[i] = StepOrder

\* the invocation that takes the step
Moves(i) == pc'[i] # pc[i] \/ trace'[i] # trace[i]

\* C16: a step of one invocation leaves the log, the configuration, the
\* connection and the result of every other invocation untouched and never
\* writes the shared flags; the log a configuration, a banner callback or a
\* result points to is the invocation's own.
C16_InvocationsIsolated ==
    /\ [](\A i \in Procs :
            /\ sshConfig[i].ConnLog \in {0, i}
            /\ sshConfig[i].BannerCallback \in {0, i}
            /\ ret[i].log \in {0, i})
    /\ [][/\ flags' = flags
          /\ \A i, j \in Procs :
                (i # j /\ Moves(i)) =>
                    /\ data'[j] = data[j]
                    /\ sshConfig'[j] = sshConfig[j]
                    /\ conn'[j] = conn[j]
                    /\ deadlineSet'[j] = deadlineSet[j]
                    /\ ret'[j] = ret[j]]_vars

C16_Witness ==
    \E i, j \in Procs :
        /\ i # j
        /\ pc[i] = "KeyExchange" /\ data[i].Banner = <<"S", " ", "H">>
        /\ pc[j] = "VersionExchange" /\ data[j] = EmptyLog

\* C17: the four catalog sets keep the contents and the order they start with,
\* also after MakeSSHConfig has handed their slices to a configuration and the
\* setters have replaced lists of that configuration.
C17_CatalogsFixed ==
    /\ supportedKexAlgos = KexCatalog
    /\ supportedHostKeyAlgos = HostKeyCatalog
    /\ supportedCiphers = CipherCatalog
    /\ supportedMACs = MACCatalog

C17_Witness ==
    /\ res.op = "SetKexAlgorithms" /\ res.err = NoErr
    /\ cfg.shared = ListFields \ {"KeyExchanges"}
    /\ cfg.KeyExchanges # supportedKexAlgos
    /\ cfg.Ciphers = supportedCiphers

SetterField(op) ==
    IF op = "SetKexAlgorithms" THEN "KeyExchanges"
    ELSE IF op = "SetHostKeyAlgorithms" THEN "HostKeyAlgorithms"
    ELSE IF op = "SetCiphers" THEN "Ciphers"
    ELSE "MACs"
SetterNames == {"SetKexAlgorithms", "SetHostKeyAlgorithms", "SetCiphers", "SetMACs"}
CatalogOf(field) ==
    IF field = "KeyExchanges" THEN KexCatalog
    ELSE IF field = "HostKeyAlgorithms" THEN HostKeyCatalog
    ELSE IF field = "Ciphers" THEN CipherCatalog
    ELSE MACCatalog

\* C18: a setter that returns an error leaves the configuration as it was; one
\* that succeeds changes only its own list, to the list of the tokens of its
\* argument; so every list is empty (never set) or made of catalog identifiers.
C18_SetterFrame ==
    /\ [](\A f \in ListFields :
            \A n \in 1..Len(cfg[f]) : contains(CatalogOf(f), cfg[f][n]))
    /\ [][res'.op \in SetterNames =>
            LET f == SetterField(res'.op)
            IN  /\ res'.err # NoErr => cfg' = cfg
                /\ res'.err = NoErr =>
                      /\ \A g \in (DOMAIN cfg) \ {f, "shared"} : cfg'[g] = cfg[g]
                      /\ Join(cfg'[f]) = value
                      /\ cfg'.shared = cfg.shared \ {f}]_vars

C18_Witness ==
    /\ res.op = "SetCiphers" /\ res.err # NoErr
    /\ cfg.Ciphers = CipherCatalog /\ "Ciphers" \in cfg.shared
    /\ cfg.KeyExchanges = << <<"a", "b">> >>

SetterPcs == {"setHostKey", "setKex", "setCiphers", "setMACs"}

CloseFailed(i) == closeErr[i] \notin {"none", "ok"}

\* C19 as stated: every per-target failure, a failing Close included, comes
\* back to the caller with a status and an error.
C19_FailureReturnsError ==
    \A i \in Procs :
        (Returned(i) /\ (stepErr[i] # NoError \/ CloseFailed(i))) =>
            /\ ret[i].status # "none"
            /\ ret[i].err # NoError

\* C19 amended: an invocation whose Dial, SetDeadline or handshake failed gets
\* to its return with a failure status and the error; an invocation whose Close
\* failed returns the success triple with no error; the process is only ever
\* ended by a setter that rejected one of the four preference strings.
C19_OnlyValidatorIsFatal ==
    /\ [](/\ exited =>
               /\ BadFlags
               /\ \E i \in Procs :
                     /\ pc[i] \in SetterPcs
                     /\ trace[i] # <<>> /\ SetterFails(Last(trace[i]))
          /\ ~BadFlags => ~exited
          /\ \A i \in Procs :
               /\ stepErr[i] # NoError => ~exited /\ pc[i] \in {"failed", "done"}
               /\ (Returned(i) /\ stepErr[i] # NoError) =>
                     /\ ret[i].status \notin {"none", SCAN_SUCCESS}
                     /\ Unwrap(ret[i].err) = stepErr[i]
               /\ CloseFailed(i) =>
                     /\ ~exited /\ Returned(i)
                     /\ ret[i] = [status |-> SCAN_SUCCESS, log |-> i, err |-> NoError])
    /\ [][exited' # exited =>
            \E i \in Procs :
                /\ pc[i] \in SetterPcs
                /\ trace'[i] # trace[i]
                /\ SetterFails(Last(trace'[i]))]_vars

C19_Witness ==
    \E i, j \in Procs :
        /\ Returned(i) /\ stepErr[i].origin = "handshake" /\ stepErr[i].kind = "eof"
        /\ Returned(j) /\ closeErr[j] = "other"
        /\ ~exited
====
